---- MODULE Spec2Model ----
(***************************************************************************)
(* PythonInteractive (src/src/index.ts, the class of lines 26-244): one    *)
(* session object driving an interactive Python child process.  execute()  *)
(* calls pass through an async-mutex gate; the holder frames its command,  *)
(* attaches data listeners to stdout/stderr, writes the command to stdin   *)
(* and settles once both sentinels were seen.                              *)
(*                                                                         *)
(* Strings are sequences of one-character strings.  Bytes that travel on   *)
(* the child's stdout/stderr are records [c |-> character, o |-> owner],   *)
(* the owner being the call whose framed command made the interpreter emit *)
(* the byte (0 for what the process emits at start-up).  The code only     *)
(* ever looks at the character; the owner is bookkeeping for attribution.  *)
(***************************************************************************)
EXTENDS Naturals, Sequences, FiniteSets

VARIABLES
    pythonProcess,  \* this._pythonProcess: 0 is null, n > 0 the n-th spawned process
    spawned,        \* number of processes spawned so far
    script,         \* this._script
    lastCommand,    \* this._lastCommand
    holder,         \* call holding this._mutex (0: unlocked)
    queue,          \* calls waiting for this._mutex, FIFO
    calls,          \* every execute() call made so far, in call order
    stdin,          \* the framed commands written to stdin, each with its call
    stdoutPipe,     \* what the live process emitted on stdout and was not read yet,
    stderrPipe,     \*   same for stderr: a sequence of pieces, each a run of bytes
    flowing,        \* a data listener was attached to the live process's streams before
    inputs,         \* the commands the caller chooses from (fixed by Init)
    pythonPath,     \* this._pythonPath
    paths,          \* the interpreter paths the caller chooses from (fixed by Init)
    absent,         \* for each process to spawn, its stream handles that are null
                    \*   (fixed by Init)
    names,          \* the names bound in the namespace of the live process
    chunking,       \* "pieces": a read may end between any two pieces;
                    \*   "whole": each write of the process is read at once
                    \*   (fixed by Init)
    other           \* a second PythonInteractive instance

vars == <<pythonProcess, spawned, script, lastCommand, holder, queue, calls,
          stdin, stdoutPipe, stderrPipe, flowing, inputs, pythonPath, paths, absent,
          names, chunking, other>>

----------------------------------------------------------------------------
(* Bounds *)

MaxCalls == 3
MaxSpawn == 2

----------------------------------------------------------------------------
(* Strings *)

Range(s) == {s[i] : i \in 1..Len(s)}

\* the characters of a stream buffer
Txt(s) == [i \in 1..Len(s) |-> s[i].c]

\* bytes emitted for call k
Tag(s, k) == [i \in 1..Len(s) |-> [c |-> s[i], o |-> k]]

Owners(s) == {s[i].o : i \in 1..Len(s)}

\* the characters of s from position i on start with pat
MatchAt(s, pat, i) ==
    /\ i + Len(pat) - 1 <= Len(s)
    /\ \A j \in 1..Len(pat) : s[i + j - 1].c = pat[j]

\* String.prototype.indexOf, 1-based; 0 when absent
IndexOf(s, pat) ==
    LET at == {i \in 1..Len(s) : MatchAt(s, pat, i)}
    IN  IF at = {} THEN 0 ELSE CHOOSE i \in at : \A j \in at : i <= j

\* String.prototype.includes
Includes(s, pat) == IndexOf(s, pat) # 0

RemoveAt(s, i, n) == SubSeq(s, 1, i - 1) \o SubSeq(s, i + n, Len(s))

\* String.prototype.replace(pat, '') with a string pattern: the first occurrence only
ReplaceFirst(s, pat) ==
    LET i == IndexOf(s, pat)
    IN  IF i = 0 THEN s ELSE RemoveAt(s, i, Len(pat))

\* String.prototype.replaceAll(pat, ''): every non-overlapping occurrence, left to right
RECURSIVE ReplaceAll(_, _)
ReplaceAll(s, pat) ==
    LET i == IndexOf(s, pat)
    IN  IF i = 0 THEN s
        ELSE SubSeq(s, 1, i - 1) \o ReplaceAll(SubSeq(s, i + Len(pat), Len(s)), pat)

WhiteSpace == {" ", "\n"}

RECURSIVE TrimStart(_)
TrimStart(s) ==
    IF s # <<>> /\ Head(s).c \in WhiteSpace THEN TrimStart(Tail(s)) ELSE s

RECURSIVE TrimEnd(_)
TrimEnd(s) ==
    IF s # <<>> /\ s[Len(s)].c \in WhiteSpace
    THEN TrimEnd(SubSeq(s, 1, Len(s) - 1)) ELSE s

\* String.prototype.trim
Trim(s) == TrimEnd(TrimStart(s))

----------------------------------------------------------------------------
(* Wire constants *)

StdoutEnd == <<"#", "S", "t", "d", "o", "u", "t", "E", "n", "d", "#">>
StderrEnd == <<"#", "S", "t", "d", "e", "r", "r", "E", "n", "d", "#">>
PromptPs1 == <<">", ">", ">">>
PromptPs2 == <<".", ".", ".">>

----------------------------------------------------------------------------
(* The interpreter: what `python -i -u` answers on its two streams.         *)
(* It echoes the primary prompt on stderr before it reads each line, and   *)
(* prints its banner on stderr when it starts.                             *)

Prompt == PromptPs1 \o <<" ">>
Banner == <<"P", "y", "\n">>
ErrText == <<"E", "r", "r">>

CodePrint == <<"1">>
CodeError == <<"x">>
CodeMixed == <<"1", ";", "x">>
CodeSentinel == <<"p", "r", "i", "n", "t", "(", "\"">> \o StdoutEnd \o <<"\"", ")">>
CodeExit == <<"e", "x", "i", "t", "(", ")">>
\* a code indented in the source of the caller
CodeIndented == <<" ", " ", "1">>
ErrIndent == <<"I", "n", "d">>
\* a code whose error message holds the characters of the secondary prompt
CodeRaise == <<"r">>
ErrDots == <<"E", ".", ".", ".", "r">>
CodeBind == <<"x", "=", "1">>
CodePrintTwice == <<"1", ";", "1">>

\* the names a code binds in the namespace of the process that runs it
Binds(code) == IF code = CodeBind THEN {"x"} ELSE {}

\* a code as it evaluates in a namespace where the names ns are bound: x is
\* 1 there, and undefined elsewhere
In(code, ns) ==
    IF "x" \notin ns THEN code
    ELSE CASE code = CodeError -> CodePrint
           [] code = CodeMixed -> CodePrintTwice
           [] OTHER -> code

\* what the code itself prints on stdout
InterpStdout(code) ==
    CASE code = CodePrint -> <<"1", "\n">>
      [] code = CodeMixed -> <<"1", "\n">>
      [] code = CodePrintTwice -> <<"1", "\n", "1", "\n">>
      [] code = CodeSentinel -> StdoutEnd \o <<"\n">>
      [] OTHER -> <<>>

\* what the code itself makes the interpreter print on stderr
InterpStderr(code) ==
    CASE code = CodeError -> ErrText \o <<"\n">>
      [] code = CodeMixed -> ErrText \o <<"\n">>
      [] code = CodeRaise -> ErrDots \o <<"\n">>
      [] code = CodeIndented -> ErrIndent \o <<"\n">>
      [] OTHER -> <<>>

\* A read of a pipe ends between two pieces: after the code's own output,
\* after the prompts echoed for the lines read so far, inside a sentinel
\* token, after the line of the sentinel, after the prompt that follows it.
Pieces(ws, k) == [i \in 1..Len(ws) |-> Tag(ws[i], k)]
NonEmpty(ws) == SelectSeq(ws, LAMBDA w : w # <<>>)

\* stdout of the process for the framed command of call k; on exit() the
\* interpreter exits before it reads the lines of the frame
EmitStdout(code, k) ==
    IF code = CodeExit THEN <<>> ELSE
    Pieces(NonEmpty(<<InterpStdout(code),
                      SubSeq(StdoutEnd, 1, 6),
                      SubSeq(StdoutEnd, 7, 11) \o <<"\n">>>>), k)

\* stderr of the process for the framed command of call k: the code's own
\* error text, a prompt after each of the lines read before the line that
\* prints the stderr sentinel (the code, the blank line, the import, the
\* stdout print), the sentinel, and the prompt for the next line
EmitStderr(code, k) ==
    IF code = CodeExit THEN <<>> ELSE
    Pieces(NonEmpty(<<InterpStderr(code),
                      Prompt \o Prompt \o Prompt \o Prompt,
                      SubSeq(StderrEnd, 1, 6),
                      SubSeq(StderrEnd, 7, 11) \o <<"\n">>,
                      Prompt>>), k)

\* the bytes of the first n pieces of a pipe
RECURSIVE Read(_, _)
Read(pipe, n) == IF n = 0 THEN <<>> ELSE Read(pipe, n - 1) \o pipe[n]

\* what a command makes the process write, as the reads of the stream cut
\* it: piece by piece, or all of it in one read
Chunked(ps) ==
    IF chunking = "whole" /\ ps # <<>> THEN <<Read(ps, Len(ps))>> ELSE ps

----------------------------------------------------------------------------
(* Arguments of execute(command?: string) *)

Undefined == [def |-> FALSE, str |-> <<>>]
Str(s) == [def |-> TRUE, str |-> s]

----------------------------------------------------------------------------
(* Call records *)

Ids == 1..Len(calls)

NewCall(kind, arg, live, st) ==
    [kind |-> kind, arg |-> arg, live |-> live, st |-> st,
     val |-> <<>>, err |-> "",
     stdoutData |-> <<>>, stderrData |-> <<>>,
     stdoutDone |-> FALSE, stderrDone |-> FALSE, lpid |-> 0]

Settled(r) == r.st \in {"resolved", "rejected"}

\* the call's data listeners are attached to the streams of the live process
Listening(k) ==
    /\ calls[k].st = "active"
    /\ pythonProcess # 0
    /\ calls[k].lpid = pythonProcess

Listeners == {k \in Ids : Listening(k)}

\* a mutex ticket was resolved and its callback has not run yet
MicrotaskPending == \E k \in Ids : calls[k].st = "ticketed"

----------------------------------------------------------------------------
(* The gate: this._mutex.runExclusive *)

\* the gate lets every caller in
GateFree_open == TRUE

GateFree == holder = 0

\* Mutex.acquire for call n of record r, added to the call table cs
Acquire(n, r, cs) ==
    IF GateFree
    THEN /\ holder' = n
         /\ queue' = queue
         /\ calls' = Append(cs, [r EXCEPT !.st = "ticketed"])
    ELSE /\ holder' = holder
         /\ queue' = Append(queue, n)
         /\ calls' = Append(cs, [r EXCEPT !.st = "queued"])

\* a release that frees the gate without handing it to the next in line
Release_dropsNext(cs) ==
    /\ holder' = 0
    /\ queue' = queue
    /\ calls' = cs

\* Mutex.release in runExclusive's finally, applied to the call table cs
Release(cs) ==
    IF queue # <<>>
    THEN /\ holder' = Head(queue)
         /\ queue' = Tail(queue)
         /\ calls' = [cs EXCEPT ![Head(queue)].st = "ticketed"]
    ELSE /\ holder' = 0
         /\ queue' = queue
         /\ calls' = cs

----------------------------------------------------------------------------
(* formatCommand *)

\* command = command ? command : ''
CommandText(arg) == IF arg.def /\ arg.str # <<>> THEN arg.str ELSE <<>>

\* the statements of the frame, without their line ends
ImportStderr == <<"from sys import stderr as stderr_buffer">>
PrintStdoutEnd == <<"p", "r", "i", "n", "t", "(", "\"">> \o StdoutEnd \o <<"\"", ")">>
PrintStderrEnd ==
    <<"p", "r", "i", "n", "t", "(", "\"">> \o StderrEnd
        \o <<"\"", ",", " ", "file=stderr_buffer", ")">>

\* the frame with the statement of the stderr sentinel before that of stdout
Frame_stderrFirst(command) ==
    command \o <<"\n", "\n">> \o ImportStderr \o <<"\n">>
        \o PrintStderrEnd \o <<"\n">> \o PrintStdoutEnd \o <<"\n">>

\* the text written to stdin for a command
Frame(command) ==
    command \o <<"\n", "\n">> \o ImportStderr \o <<"\n">>
        \o PrintStdoutEnd \o <<"\n">> \o PrintStderrEnd \o <<"\n">>

\* the history replaced by the command
Recorded_overwrites(old, command) == command

\* this._script += command
Recorded(old, command) == old \o command

\* formatCommand recording the text after it was framed
formatCommand_recordsFramed(arg) ==
    [command |-> Frame(CommandText(arg)), text |-> Frame(CommandText(arg))]

\* formatCommand: command is what _script and _lastCommand receive, text is
\* what is returned for sendInput
formatCommand(arg) ==
    [command |-> CommandText(arg), text |-> Frame(CommandText(arg))]

----------------------------------------------------------------------------
(* addListeners: the handlers, as functions on the record of the call      *)
(* whose closure holds stdoutData, stderrData, stdoutDone and stderrDone   *)

\* done() as soon as the stdout sentinel was seen
BothDone_stdoutOnly(r) == r.stdoutDone

BothDone(r) == r.stdoutDone /\ r.stderrDone

\* the closure of a call whose streams were destroyed: no event reaches it any
\* more and nothing reads its buffers again
Closed(r) == [r EXCEPT !.stdoutData = <<>>, !.stderrData = <<>>,
                       !.stdoutDone = FALSE, !.stderrDone = FALSE]

\* The closure of a call that has settled: its listeners are removed and no
\* event reaches it any more.  The record keeps what the buffers held at
\* that moment, less the white space around it.
Settle(r) == [r EXCEPT !.stdoutData = Trim(r.stdoutData),
                       !.stderrData = Trim(r.stderrData)]

\* captured output takes precedence over error text
Outcome_outputWins(r) ==
    IF Trim(r.stdoutData) # <<>>
    THEN Settle([r EXCEPT !.st = "resolved", !.val = Trim(r.stdoutData)])
    ELSE Settle([r EXCEPT !.st = "rejected", !.val = Trim(r.stderrData)])

\* reject(stderrData.trim()) or resolve(stdoutData.trim())
Outcome(r) ==
    IF Trim(r.stderrData) # <<>>
    THEN Settle([r EXCEPT !.st = "rejected", !.val = Trim(r.stderrData)])
    ELSE Settle([r EXCEPT !.st = "resolved", !.val = Trim(r.stdoutData)])

\* if (stdoutDone && stderrDone) done()
Done(r) == IF BothDone(r) THEN Outcome(r) ELSE r

StripStdout(buf) == ReplaceFirst(buf, StdoutEnd)

StripStderr(buf) ==
    ReplaceFirst(ReplaceAll(ReplaceAll(buf, PromptPs1), PromptPs2), StderrEnd)

\* stdout.on('data', ...)
OnStdoutData(r, data) ==
    LET buf == r.stdoutData \o data
    IN  IF Includes(buf, StdoutEnd)
        THEN Done([r EXCEPT !.stdoutData = StripStdout(buf), !.stdoutDone = TRUE])
        ELSE [r EXCEPT !.stdoutData = buf]

\* stderr.on('data', ...)
OnStderrData(r, data) ==
    LET buf == r.stderrData \o data
    IN  IF Includes(buf, StderrEnd)
        THEN Done([r EXCEPT !.stderrData = StripStderr(buf), !.stderrDone = TRUE])
        ELSE [r EXCEPT !.stderrData = buf]

\* emit('data', data) of stdout: the handler of every attached listener runs
RECURSIVE EmitStdoutData(_, _, _)
EmitStdoutData(cs, ks, data) ==
    IF ks = {} THEN cs
    ELSE LET k == CHOOSE i \in ks : \A j \in ks : i <= j
         IN  EmitStdoutData([cs EXCEPT ![k] = OnStdoutData(cs[k], data)], ks \ {k}, data)

\* emit('data', data) of stderr
RECURSIVE EmitStderrData(_, _, _)
EmitStderrData(cs, ks, data) ==
    IF ks = {} THEN cs
    ELSE LET k == CHOOSE i \in ks : \A j \in ks : i <= j
         IN  EmitStderrData([cs EXCEPT ![k] = OnStderrData(cs[k], data)], ks \ {k}, data)

RECURSIVE Detach(_, _)
Detach(cs, ks) ==
    IF ks = {} THEN cs
    ELSE LET k == CHOOSE i \in ks : TRUE
         IN  Detach([cs EXCEPT ![k].lpid = 0], ks \ {k})

\* The call table after a data event was handled by every attached listener:
\* a handler that settled its call ran removeAllListeners() on both streams,
\* which detaches every listener there is.
AfterEvent(cs) ==
    IF \E k \in Listeners : Settled(cs[k])
    THEN Detach(cs, Listeners)
    ELSE cs

\* runExclusive's finally after the holder's promise settled
Finish(cs) ==
    IF holder # 0 /\ Settled(cs[holder])
    THEN Release(cs)
    ELSE /\ calls' = cs
         /\ UNCHANGED <<holder, queue>>

----------------------------------------------------------------------------
(* Operations of the caller *)

Handles == {"stdin", "stdout", "stderr"}

\* spawn(this._pythonPath, ['-i', '-u'])
Spawn ==
    /\ spawned' = spawned + 1
    /\ pythonProcess' = spawned + 1
    /\ stdoutPipe' = <<>>
    /\ stderrPipe' = IF "stderr" \in absent[spawned + 1] THEN <<>>
                     ELSE Pieces(<<Banner \o Prompt>>, 0)
    /\ flowing' = FALSE
    /\ names' = {}

\* the body of stop() when a process is running: the three streams are
\* destroyed, the process is killed and the handle is dropped
Kill ==
    /\ pythonProcess' = 0
    /\ stdoutPipe' = <<>>
    /\ stderrPipe' = <<>>
    /\ flowing' = FALSE
    /\ names' = {}

\* The call table once the streams of the live process are destroyed: the
\* listeners stay registered on the dead streams, which emit no 'data' again.
RECURSIVE Close(_, _)
Close(cs, ks) ==
    IF ks = {} THEN cs
    ELSE LET k == CHOOSE i \in ks : TRUE
         IN  Close([cs EXCEPT ![k] = Closed(cs[k])], ks \ {k})

Destroyed(cs) == Close(cs, Listeners)

\* a setter without the test for a running process
SetPythonPath_unguarded(path) ==
    /\ pythonPath' = path
    /\ UNCHANGED <<pythonProcess, spawned, script, lastCommand, holder, queue, calls,
                   stdin, stdoutPipe, stderrPipe, flowing, inputs, paths, absent,
                   names, chunking, other>>

\* set pythonPath(path)
SetPythonPath(path) ==
    /\ IF pythonProcess # 0
       THEN pythonPath' = pythonPath       \* throws
       ELSE pythonPath' = path
    /\ UNCHANGED <<pythonProcess, spawned, script, lastCommand, holder, queue, calls,
                   stdin, stdoutPipe, stderrPipe, flowing, inputs, paths, absent,
                   names, chunking, other>>

\* a promise handed on as it is
Caught_rethrows(r) == r

\* promise.catch((err) => err): a rejection becomes a resolution with the
\* value it was rejected with
Caught(r) == IF r.st = "rejected" THEN [r EXCEPT !.st = "resolved"] ELSE r

\* start() returning this.execute() as it is
StartResult_uncaught(k) == calls[k]

\* the promise start() returns for the execute() call k it made
StartResult(k) == Caught(calls[k])

\* the promise the caller holds for call k
Deferred(k) == IF calls[k].kind = "execute" THEN calls[k] ELSE StartResult(k)

\* execute(command)
Execute(arg) ==
    /\ Len(calls) < MaxCalls
    /\ Acquire(Len(calls) + 1, NewCall("execute", arg, pythonProcess # 0, "queued"), calls)
    /\ UNCHANGED <<pythonProcess, spawned, script, lastCommand, stdin,
                   stdoutPipe, stderrPipe, flowing, inputs, pythonPath, paths, absent,
                   names, chunking, other>>

\* stop() that also forgets the transcript
Stop_forgets ==
    /\ IF pythonProcess # 0
       THEN Kill /\ calls' = Destroyed(calls)
       ELSE UNCHANGED <<pythonProcess, stdoutPipe, stderrPipe, flowing, calls, names>>
    /\ script' = <<>>
    /\ lastCommand' = <<>>
    /\ UNCHANGED <<spawned, holder, queue, stdin, inputs, pythonPath, paths, absent,
                   chunking, other>>

\* stop()
Stop ==
    /\ IF pythonProcess # 0
       THEN Kill /\ calls' = Destroyed(calls)
       ELSE UNCHANGED <<pythonProcess, stdoutPipe, stderrPipe, flowing, calls, names>>
    /\ UNCHANGED <<spawned, script, lastCommand, holder, queue, stdin, inputs, pythonPath, paths, absent,
                   chunking, other>>

\* start(): spawns when there is no process, then this.execute().catch(err => err)
Start ==
    /\ Len(calls) < MaxCalls
    /\ IF pythonProcess = 0
       THEN /\ spawned < MaxSpawn
            /\ Spawn
            /\ script' = <<>>
       ELSE UNCHANGED <<pythonProcess, spawned, stdoutPipe, stderrPipe, flowing, script,
                        names>>
    /\ Acquire(Len(calls) + 1, NewCall("start", Undefined, pythonProcess # 0, "queued"), calls)
    /\ UNCHANGED <<lastCommand, stdin, inputs, pythonPath, paths, absent,
                   chunking, other>>

\* restart(): stop() then start()
Restart ==
    /\ Len(calls) < MaxCalls
    /\ spawned < MaxSpawn
    /\ Spawn
    /\ script' = <<>>
    /\ Acquire(Len(calls) + 1, NewCall("restart", Undefined, pythonProcess # 0, "queued"),
               Destroyed(calls))
    /\ UNCHANGED <<lastCommand, stdin, inputs, pythonPath, paths, absent,
                   chunking, other>>

----------------------------------------------------------------------------
(* Steps of the event loop *)

\* a callback that neither throws nor returns a settled promise
Fail_hangs(e) ==
    /\ calls' = [calls EXCEPT ![holder].st = "active"]
    /\ UNCHANGED <<holder, queue>>

\* the callback of runExclusive throws e, or returns a promise rejected with
\* e: the call is rejected with it and the gate is released. When it is
\* sendInput that throws, addListeners has run before it and the listeners
\* it attached to stdout and stderr stay.
Fail(e) ==
    LET attached == /\ pythonProcess # 0
                    /\ absent[pythonProcess] = {"stdin"}
    IN  Release([calls EXCEPT ![holder].st = "rejected", ![holder].err = e,
                              ![holder].lpid = IF attached THEN pythonProcess ELSE 0])

\* the error of a submission on a process that lacks the handles in lost:
\* sendInput throws in the callback, else the promise of addListeners is
\* rejected by the throw in its executor, which tests stdout first
StreamError(lost) ==
    IF "stdin" \in lost THEN "NoStdin"
    ELSE IF "stdout" \in lost THEN "NoStdout" ELSE "NoStderr"

\* the test for a process made when the call was made
NotStarted_atCall(k) == ~calls[k].live

\* if (!this._pythonProcess), in the callback of call k
NotStarted(k) == pythonProcess = 0

\* the callback of runExclusive runs for the call that got the ticket
RunCallback ==
    /\ holder # 0
    /\ calls[holder].st = "ticketed"
    /\ IF NotStarted(holder)
       THEN /\ Fail("NotStarted")
            /\ UNCHANGED <<script, lastCommand, stdin, stdoutPipe, stderrPipe, flowing,
                           names>>
       ELSE LET framed == formatCommand(calls[holder].arg)
                command == framed.command
                lost == absent[pythonProcess]
                written == "stdin" \notin lost
                run == In(command, names)
            IN  /\ script' = Recorded(script, command)
                /\ names' = IF written THEN names \cup Binds(command) ELSE names
                /\ lastCommand' = command
                /\ stdin' = IF written
                            THEN Append(stdin, [k |-> holder, text |-> framed.text])
                            ELSE stdin
                /\ stdoutPipe' = IF written /\ "stdout" \notin lost
                                 THEN stdoutPipe \o Chunked(EmitStdout(run, holder))
                                 ELSE stdoutPipe
                /\ stderrPipe' = IF written /\ "stderr" \notin lost
                                 THEN stderrPipe \o Chunked(EmitStderr(run, holder))
                                 ELSE stderrPipe
                /\ IF lost = {}
                   THEN /\ calls' = [calls EXCEPT ![holder].st = "active",
                                                  ![holder].lpid = pythonProcess]
                        /\ flowing' = TRUE
                        /\ UNCHANGED <<holder, queue>>
                   ELSE \* with only stdin missing the listeners were attached
                        \* and stay: what the streams carry reaches no call
                        /\ Fail(StreamError(lost))
                        /\ flowing' = (flowing \/ lost = {"stdin"})
    /\ UNCHANGED <<pythonProcess, spawned, inputs, pythonPath, paths, absent,
                   chunking, other>>

\* a 'data' event of stdout carrying the next n pieces
StdoutEvent(n) ==
    /\ ~MicrotaskPending
    /\ Listeners # {}
    /\ n \in 1..Len(stdoutPipe)
    /\ \E cs \in {AfterEvent(EmitStdoutData(calls, Listeners, Read(stdoutPipe, n)))} :
            Finish(cs)
    /\ stdoutPipe' = SubSeq(stdoutPipe, n + 1, Len(stdoutPipe))
    /\ UNCHANGED <<pythonProcess, spawned, script, lastCommand, stdin, stderrPipe,
                   flowing, inputs, pythonPath, paths, absent,
                   names, chunking, other>>

\* a 'data' event of stderr carrying the next n pieces
StderrEvent(n) ==
    /\ ~MicrotaskPending
    /\ Listeners # {}
    /\ n \in 1..Len(stderrPipe)
    /\ \E cs \in {AfterEvent(EmitStderrData(calls, Listeners, Read(stderrPipe, n)))} :
            Finish(cs)
    /\ stderrPipe' = SubSeq(stderrPipe, n + 1, Len(stderrPipe))
    /\ UNCHANGED <<pythonProcess, spawned, script, lastCommand, stdin, stdoutPipe,
                   flowing, inputs, pythonPath, paths, absent,
                   names, chunking, other>>

\* a stream in flowing mode with no 'data' listener discards what it reads:
\* the next m pieces of stdout and the next n pieces of stderr are lost
Lost(m, n) ==
    /\ ~MicrotaskPending
    /\ flowing /\ Listeners = {}
    /\ m <= Len(stdoutPipe) /\ n <= Len(stderrPipe)
    /\ m + n > 0
    /\ stdoutPipe' = SubSeq(stdoutPipe, m + 1, Len(stdoutPipe))
    /\ stderrPipe' = SubSeq(stderrPipe, n + 1, Len(stderrPipe))
    /\ UNCHANGED <<pythonProcess, spawned, script, lastCommand, holder, queue, calls,
                   stdin, flowing, inputs, pythonPath, paths, absent,
                   names, chunking, other>>

----------------------------------------------------------------------------
(* A second instance of the class. Its fields are those of the constructor, *)
(* its process is its own, and its methods are the ones above; it is only  *)
(* started and used, and each write of its process is read at once.        *)

MaxOtherCalls == 2

\* the variables of the first instance and of its process
session == <<pythonProcess, spawned, script, lastCommand, holder, queue, calls,
             stdin, stdoutPipe, stderrPipe, flowing, pythonPath, names>>

\* new PythonInteractive()
OtherInit ==
    [pythonProcess |-> 0, spawned |-> 0, script |-> <<>>, lastCommand |-> <<>>,
     holder |-> 0, queue |-> <<>>, calls |-> <<>>,
     stdoutPipe |-> <<>>, stderrPipe |-> <<>>, names |-> {}]

\* the commands the caller gives the second instance
OtherInputs == {Str(CodeError)}

\* the namespace in which the process of the second instance runs a command
OtherNames_shared == names

OtherNames == other.names

\* Mutex.acquire of the second instance, for its call of record r
OtherAcquire(o, r) ==
    LET n == Len(o.calls) + 1
    IN  IF o.holder = 0
        THEN [o EXCEPT !.holder = n,
                       !.calls = Append(o.calls, [r EXCEPT !.st = "ticketed"])]
        ELSE [o EXCEPT !.queue = Append(o.queue, n),
                       !.calls = Append(o.calls, r)]

\* Mutex.release of the second instance
OtherRelease(o) ==
    IF o.queue = <<>>
    THEN [o EXCEPT !.holder = 0]
    ELSE [o EXCEPT !.holder = Head(o.queue),
                   !.queue = Tail(o.queue),
                   !.calls[Head(o.queue)].st = "ticketed"]

\* spawn, and the reset of the history, when it has no process
OtherSpawned(o) ==
    IF o.pythonProcess # 0 THEN o
    ELSE [o EXCEPT !.spawned = o.spawned + 1,
                   !.pythonProcess = o.spawned + 1,
                   !.script = <<>>,
                   !.stdoutPipe = <<>>,
                   !.stderrPipe = Tag(Banner \o Prompt, 0),
                   !.names = {}]

OtherStart ==
    /\ Len(other.calls) < MaxOtherCalls
    /\ other' = OtherAcquire(OtherSpawned(other),
                             NewCall("start", Undefined, other.pythonProcess # 0, "queued"))
    /\ UNCHANGED <<session, inputs, paths, absent, chunking>>

OtherExecute(arg) ==
    /\ Len(other.calls) < MaxOtherCalls
    /\ other' = OtherAcquire(other,
                             NewCall("execute", arg, other.pythonProcess # 0, "queued"))
    /\ UNCHANGED <<session, inputs, paths, absent, chunking>>

\* the callback of runExclusive of the second instance
OtherRunCallback ==
    /\ other.holder # 0
    /\ other.calls[other.holder].st = "ticketed"
    /\ LET k == other.holder
           command == CommandText(other.calls[k].arg)
           run == In(command, OtherNames)
       IN  other' =
             IF other.pythonProcess = 0
             THEN OtherRelease([other EXCEPT !.calls[k].st = "rejected",
                                             !.calls[k].err = "NotStarted"])
             ELSE [other EXCEPT
                     !.script = other.script \o command,
                     !.lastCommand = command,
                     !.names = other.names \cup Binds(command),
                     !.calls[k].st = "active",
                     !.calls[k].lpid = other.pythonProcess,
                     !.stdoutPipe = @ \o Read(EmitStdout(run, k), Len(EmitStdout(run, k))),
                     !.stderrPipe = @ \o Read(EmitStderr(run, k), Len(EmitStderr(run, k)))]
    /\ UNCHANGED <<session, inputs, paths, absent, chunking>>

\* the 'data' events of the second instance's streams reach its active call
OtherData ==
    /\ other.holder # 0
    /\ other.pythonProcess # 0
    /\ other.calls[other.holder].st = "active"
    /\ other.calls[other.holder].lpid = other.pythonProcess
    /\ other.stdoutPipe # <<>> /\ other.stderrPipe # <<>>
    /\ LET k == other.holder
           r == OnStderrData(OnStdoutData(other.calls[k], other.stdoutPipe),
                             other.stderrPipe)
           o == [other EXCEPT !.calls[k] = [r EXCEPT !.lpid = IF Settled(r) THEN 0 ELSE @],
                              !.stdoutPipe = <<>>, !.stderrPipe = <<>>]
       IN  other' = IF Settled(r) THEN OtherRelease(o) ELSE o
    /\ UNCHANGED <<session, inputs, paths, absent, chunking>>

----------------------------------------------------------------------------
(* Specifications *)

MaxChunk == 6

InitSession ==
    /\ pythonProcess = 0
    /\ spawned = 0
    /\ script = <<>>
    /\ lastCommand = <<>>
    /\ holder = 0
    /\ queue = <<>>
    /\ calls = <<>>
    /\ stdin = <<>>
    /\ stdoutPipe = <<>>
    /\ stderrPipe = <<>>
    /\ flowing = FALSE
    /\ names = {}
    /\ other = OtherInit

\* the interpreter path when the constructor gets none, and another one
DefaultPath == "python3"
OtherPath == "path/to/python"

\* every process has its three stream handles
AllPresent == [n \in 1..MaxSpawn |-> {}]

Init ==
    /\ InitSession
    /\ paths = {DefaultPath}
    /\ pythonPath = DefaultPath
    /\ absent = AllPresent
    /\ chunking = "pieces"
    /\ inputs = {Undefined, Str(CodePrint), Str(CodeMixed)}

Next ==
    \/ \E arg \in inputs : Execute(arg)
    \/ \E path \in paths : SetPythonPath(path)
    \/ Start
    \/ Stop
    \/ Restart
    \/ RunCallback
    \/ \E n \in 1..MaxChunk : StdoutEvent(n)
    \/ \E n \in 1..MaxChunk : StderrEvent(n)
    \/ \E m, n \in 0..MaxChunk : Lost(m, n)

Spec == Init /\ [][Next]_vars

\* the caller submits no code, as no argument and as the empty string
InitEmpty ==
    /\ InitSession
    /\ paths = {DefaultPath}
    /\ pythonPath = DefaultPath
    /\ absent = AllPresent
    /\ chunking = "pieces"
    /\ inputs = {Undefined, Str(<<>>)}

SpecEmpty == InitEmpty /\ [][Next]_vars

\* sentinel collisions: the caller's code may print a sentinel token itself
InitCollide ==
    /\ InitSession
    /\ paths = {DefaultPath}
    /\ pythonPath = DefaultPath
    /\ absent = AllPresent
    /\ chunking = "pieces"
    /\ inputs = {Str(CodePrint), Str(CodeSentinel)}

SpecCollide == InitCollide /\ [][Next]_vars

\* the caller also changes the interpreter path
InitPath ==
    /\ InitSession
    /\ paths = {DefaultPath, OtherPath}
    /\ pythonPath = DefaultPath
    /\ absent = AllPresent
    /\ chunking = "pieces"
    /\ inputs = {Str(CodePrint)}

SpecPath == InitPath /\ [][Next]_vars

\* the first process to be spawned lacks one of its stream handles
InitAbsent ==
    /\ InitSession
    /\ paths = {DefaultPath}
    /\ pythonPath = DefaultPath
    /\ inputs = {Str(CodePrint)}
    /\ \E h \in Handles : absent = [AllPresent EXCEPT ![1] = {h}]
    /\ chunking = "pieces"

SpecAbsent == InitAbsent /\ [][Next]_vars

\* the caller's code may exit the interpreter
InitExit ==
    /\ InitSession
    /\ paths = {DefaultPath}
    /\ pythonPath = DefaultPath
    /\ absent = AllPresent
    /\ chunking = "pieces"
    /\ inputs = {Str(CodePrint), Str(CodeExit)}

SpecExit == InitExit /\ [][Next]_vars

\* the caller's code may fail with a message that holds '...'
InitRaise ==
    /\ InitSession
    /\ paths = {DefaultPath}
    /\ pythonPath = DefaultPath
    /\ absent = AllPresent
    /\ chunking = "pieces"
    /\ inputs = {Str(CodePrint), Str(CodeRaise)}

SpecRaise == InitRaise /\ [][Next]_vars

\* the caller's code may be indented
InitIndent ==
    /\ InitSession
    /\ paths = {DefaultPath}
    /\ pythonPath = DefaultPath
    /\ absent = AllPresent
    /\ chunking = "pieces"
    /\ inputs = {Str(CodePrint), Str(CodeIndented)}

SpecIndent == InitIndent /\ [][Next]_vars

\* two instances side by side; the first binds a name, the second uses it
InitTwo ==
    /\ InitSession
    /\ paths = {DefaultPath}
    /\ pythonPath = DefaultPath
    /\ absent = AllPresent
    /\ chunking = "whole"
    /\ inputs = {Str(CodeBind)}

\* the steps of both instances; every answer is read in one piece by the
\* call that listens for it, so no stream holds data that could be discarded
NextTwo ==
    \/ \E arg \in inputs : Execute(arg)
    \/ \E path \in paths : SetPythonPath(path)
    \/ Start
    \/ Stop
    \/ Restart
    \/ RunCallback
    \/ \E n \in 1..MaxChunk : StdoutEvent(n)
    \/ \E n \in 1..MaxChunk : StderrEvent(n)
    \/ OtherStart
    \/ \E arg \in OtherInputs : OtherExecute(arg)
    \/ OtherRunCallback
    \/ OtherData

SpecTwo == InitTwo /\ [][NextTwo]_vars

----------------------------------------------------------------------------
(* Vocabulary of the properties *)

\* call k settled through done(), i.e. by sentinel detection
BySentinels(k) == Settled(calls[k]) /\ calls[k].err = ""

Active == {k \in Ids : calls[k].st = "active"}

\* a 'data' event can still be delivered to some listener
StreamEvent == \E n \in 1..MaxChunk : StdoutEvent(n) \/ StderrEvent(n)

\* a step the event loop takes without the caller doing anything
ProgramStep == RunCallback \/ StreamEvent

\* the outcome the interpreter's answer to a code stands for
ExpectedSt(code) == IF InterpStderr(code) = <<>> THEN "resolved" ELSE "rejected"
ExpectedVal(code) ==
    IF InterpStderr(code) = <<>>
    THEN Txt(Trim(Tag(InterpStdout(code), 0)))
    ELSE Txt(Trim(Tag(InterpStderr(code), 0)))

----------------------------------------------------------------------------
(* Properties *)

\* C1: at most one submission of the session is active (listeners attached,
\* command written, not settled) at any time
C1_AtMostOneActive == Cardinality(Active) <= 1

\* C1 witness: one submission is active while another waits for the gate
C1_Witness ==
    \E k, j \in Ids : calls[k].st = "active" /\ Listening(k) /\ calls[j].st = "queued"

\* C2: commands are written in call order, and every execute() call made on
\* a started session that was never stopped, once it settles, settles with
\* the outcome of its own code
C2_OrderedOutcomes ==
    /\ \A i, j \in 1..Len(stdin) : i < j => stdin[i].k < stdin[j].k
    /\ \A k \in Ids :
         (calls[k].kind = "execute" /\ calls[k].live /\ spawned = 1 /\ BySentinels(k)) =>
            /\ calls[k].st = ExpectedSt(CommandText(calls[k].arg))
            /\ Txt(calls[k].val) = ExpectedVal(CommandText(calls[k].arg))

\* C3: the payload a call settles with holds no byte the interpreter emitted
\* for another call
C3_NoForeignBytes ==
    \A k \in Ids : Settled(calls[k]) => Owners(calls[k].val) \subseteq {0, k}

\* C4: a call settled by sentinel detection has seen both sentinels
C4_BothSentinels ==
    \A k \in Ids : BySentinels(k) => calls[k].stdoutDone /\ calls[k].stderrDone

\* C4 witness: one call settled through its sentinels, and another is still
\* pending although the sentinel of one of its streams has arrived
C4_Witness ==
    \E k, j \in Ids :
        /\ BySentinels(k)
        /\ calls[j].st = "active"
        /\ calls[j].stderrDone /\ ~calls[j].stdoutDone

\* C5: at joint completion a non-empty trimmed error buffer rejects with it,
\* and only an empty one resolves, with the trimmed output buffer
C5_ErrorWins ==
    \A k \in Ids : BySentinels(k) =>
        IF calls[k].stderrData # <<>>
        THEN calls[k].st = "rejected" /\ calls[k].val = calls[k].stderrData
        ELSE calls[k].st = "resolved" /\ calls[k].val = calls[k].stdoutData

\* C5 witness: a call rejected with its error text although output was captured
C5_Witness ==
    \E k \in Ids :
        /\ BySentinels(k) /\ calls[k].st = "rejected"
        /\ calls[k].stdoutData # <<>>

\* C6: no payload contains a sentinel token
C6_NoSentinelInPayload ==
    \A k \in Ids : Settled(calls[k]) =>
        ~Includes(calls[k].val, StdoutEnd) /\ ~Includes(calls[k].val, StderrEnd)

\* C7: an execute() made while the session has no process writes nothing and
\* can only be rejected with the not-started error
C7_NotStartedRejects ==
    \A k \in Ids : (calls[k].kind = "execute" /\ ~calls[k].live) =>
        /\ calls[k].st \in {"queued", "ticketed", "rejected"}
        /\ calls[k].st = "rejected" => calls[k].err = "NotStarted"

\* C8: an execute() made while the session has no process never waits for
\* the gate
C8_FailsBeforeGate ==
    \A k \in Ids : (calls[k].kind = "execute" /\ ~calls[k].live) =>
        calls[k].st # "queued"

\* C9: a submission that is pending can still be settled by the event loop;
\* one whose streams stop() destroyed is rejected, not left pending
C9_StopRejectsPending ==
    \A k \in Ids : calls[k].st = "active" => ENABLED StreamEvent

\* C10: the deferred result of restart() settles: as long as it is not
\* settled the event loop has a step to take towards it, also when a
\* submission was in flight at the time of the restart
C10_RestartSettles ==
    \A k \in Ids : (calls[k].kind = "restart" /\ ~Settled(calls[k])) =>
        ENABLED ProgramStep

\* the callback of the call that holds the ticket runs in this step
CallbackOf(kind) ==
    /\ holder # 0
    /\ calls[holder].kind = kind
    /\ calls[holder].st = "ticketed"
    /\ calls'[holder].st # "ticketed"

\* C11: start() on a started session is a no-op: neither the call nor the
\* empty submission it makes changes the process handle, the history or the
\* last command
C11_StartNoOp ==
    [][ /\ (pythonProcess # 0 /\ Start) =>
            /\ pythonProcess' = pythonProcess
            /\ script' = script /\ lastCommand' = lastCommand
        /\ (CallbackOf("start") /\ calls[holder].live /\ pythonProcess # 0) =>
            /\ pythonProcess' = pythonProcess
            /\ script' = script /\ lastCommand' = lastCommand ]_vars

\* C12: start() on a session without a process leaves it with a process,
\* an empty history and an empty last command
C12_StartSpawnsAndResets ==
    [][ (pythonProcess = 0 /\ Start) =>
            /\ pythonProcess' # 0
            /\ script' = <<>>
            /\ lastCommand' = <<>> ]_vars

\* call k was made on a session whose process had been stopped
AfterStop(k) ==
    /\ ~calls[k].live
    /\ \E j \in 1..(k - 1) : calls[j].kind \in {"start", "restart"}

\* C13: stop() leaves the session without a process, changes nothing when
\* there was none, and an execute() made on the stopped session is rejected
\* with the not-started error when its turn comes
C13_StopThenRejected ==
    [][ /\ Stop => pythonProcess' = 0
        /\ (pythonProcess = 0 /\ Stop) => UNCHANGED vars
        /\ (CallbackOf("execute") /\ AfterStop(holder)) =>
            /\ calls'[holder].st = "rejected"
            /\ calls'[holder].err = "NotStarted" ]_vars

\* C14: stop() leaves the history, the last command and the interpreter
\* path as they were, and the history and the last command stay as they
\* were for as long as the session has no process
C14_StopKeepsTranscript ==
    [][ /\ Stop =>
            /\ script' = script /\ lastCommand' = lastCommand
            /\ pythonPath' = pythonPath
        /\ (pythonProcess = 0 /\ pythonProcess' = 0) =>
            /\ script' = script /\ lastCommand' = lastCommand ]_vars

\* C14 witness: a stopped session that still shows the transcript of the
\* process it had, under a path the caller chose
C14_Witness ==
    /\ pythonProcess = 0 /\ spawned > 0
    /\ script # <<>> /\ lastCommand # <<>>
    /\ pythonPath = OtherPath

\* C15: restart() leaves the session with a process that is not the one it
\* had, an empty history and an empty last command
C15_RestartResets ==
    [][ Restart =>
            /\ pythonProcess' # 0
            /\ pythonProcess' # pythonProcess
            /\ script' = <<>>
            /\ lastCommand' = <<>> ]_vars

\* C16: no step taken while the session has a process changes the
\* interpreter path, the setter included, and the setter on a session
\* without a process makes the path the value it was given
C16_PathFixedWhileRunning ==
    [][ /\ pythonProcess # 0 => pythonPath' = pythonPath
        /\ \A path \in paths :
            (pythonProcess = 0 /\ SetPythonPath(path)) => pythonPath' = path ]_vars

\* C16 witness: a process runs on a session whose path the caller had set
\* while it was stopped, and a submission is under way
C16_Witness ==
    /\ pythonProcess # 0
    /\ pythonPath = OtherPath
    /\ Active # {}

\* C17: the promise of start() is never rejected: when the submission it
\* made is rejected it is resolved with what that was rejected with, and
\* when the submission is resolved it is resolved with the same text
C17_StartNeverRejects ==
    \A k \in Ids : calls[k].kind = "start" =>
        /\ StartResult(k).st # "rejected"
        /\ Settled(calls[k]) =>
            /\ StartResult(k).st = "resolved"
            /\ StartResult(k).val = calls[k].val
            /\ StartResult(k).err = calls[k].err

\* C17 witness: the submission of a start() was rejected with the banner
\* the interpreter printed on stderr
C17_Witness ==
    \E k \in Ids :
        /\ calls[k].kind = "start" /\ calls[k].st = "rejected" /\ BySentinels(k)
        /\ Includes(calls[k].val, SubSeq(Banner, 1, 2))

\* the submission of call k failed: no process when its turn came, or the
\* interpreter reported an error for its code
Failed(k) ==
    \/ calls[k].err = "NotStarted"
    \/ BySentinels(k) /\ Includes(calls[k].stderrData, ErrText)

StreamErrors == {"NoStdin", "NoStdout", "NoStderr"}

\* C19: when the turn of a call comes on a process that lacks a stream
\* handle, the call is rejected with the error of that stream and the gate
\* passes to the next call waiting, or is free
C19_AbsentStreamRejects ==
    [][ ( /\ holder # 0
          /\ calls[holder].st = "ticketed" /\ calls'[holder].st # "ticketed"
          /\ pythonProcess # 0 /\ absent[pythonProcess] # {} ) =>
        /\ calls'[holder].st = "rejected"
        /\ calls'[holder].err = StreamError(absent[pythonProcess])
        /\ holder' # holder
        /\ IF queue = <<>> THEN holder' = 0
           ELSE holder' = Head(queue) /\ calls'[holder'].st = "ticketed" ]_vars

\* C19 witness: an execute() was rejected for a missing stream handle and a
\* call made after it is active
C19_Witness ==
    \E k, j \in Ids :
        /\ k < j
        /\ calls[k].kind = "execute" /\ calls[k].err \in StreamErrors
        /\ calls[j].st = "active" /\ Listening(j)

\* the live process has exited on the code of a call
Exited ==
    /\ pythonProcess # 0
    /\ \E j \in Ids :
        /\ calls[j].st = "active" /\ calls[j].lpid = pythonProcess
        /\ CommandText(calls[j].arg) = CodeExit

\* the streams of the exited process were read to their end
EndOfStream == Exited /\ stdoutPipe = <<>> /\ stderrPipe = <<>>

\* C20: a submission still listening when its streams have ended is not
\* left pending: the event loop has a step to take that settles it
C20_EndOfStreamRejects ==
    (EndOfStream /\ Listeners # {}) => ENABLED ProgramStep

\* C21: no step changes both instances: what the first does leaves the
\* process, history, last command, gate and calls of the second as they
\* were, and the reverse; and x, bound at most through the first instance,
\* is undefined for every execute('x') of the second that settles
C21_SessionsIsolated ==
    /\ [][ /\ session' # session => other' = other
           /\ other' # other => session' = session ]_vars
    /\ [](\A k \in DOMAIN other.calls :
            (other.calls[k].kind = "execute" /\ Settled(other.calls[k])
                /\ other.calls[k].err = "") =>
                /\ other.calls[k].st = "rejected"
                /\ Includes(other.calls[k].val, ErrText))

\* C21 witness: x is bound in the process of the first instance, whose gate
\* is held by a pending submission, and the second instance has settled an
\* execute('x') with the name error
C21_Witness ==
    /\ names = {"x"}
    /\ Active # {}
    /\ \E k \in DOMAIN other.calls :
        /\ other.calls[k].kind = "execute"
        /\ other.calls[k].st = "rejected" /\ other.calls[k].err = ""
        /\ Includes(other.calls[k].val, ErrText)

\* call k submits no code: execute() or execute('')
NoCode(k) == calls[k].kind = "execute" /\ calls[k].arg \in {Undefined, Str(<<>>)}

\* C22: execute(undefined) and execute('') are framed alike, as an empty
\* line followed by the frame, neither fails for its argument, and on a
\* started session that was never stopped each one that settles by its
\* sentinels resolves with the empty string
C22_EmptySame ==
    /\ formatCommand(Undefined) = formatCommand(Str(<<>>))
    /\ \A i \in 1..Len(stdin) :
         NoCode(stdin[i].k) => stdin[i].text = Frame(<<>>) /\ Head(stdin[i].text) = "\n"
    /\ \A k \in Ids :
         (NoCode(k) /\ calls[k].live /\ spawned = 1 /\ BySentinels(k)) =>
            /\ calls[k].st = "resolved"
            /\ calls[k].val = <<>>

\* the text holds a sentinel token or a statement of the frame
Framing(text) ==
    \E pat \in {StdoutEnd, StderrEnd, ImportStderr} : Includes(Tag(text, 0), pat)

\* C23: the history and the last command never hold a sentinel token or a
\* statement the framer added, and the callback that frames a non-empty
\* code leaves that code as the last command and appends it to the history
C23_RecordedBeforeWrapping ==
    /\ [](~Framing(script) /\ ~Framing(lastCommand))
    /\ [][ (CallbackOf("execute") /\ pythonProcess # 0
                /\ CommandText(calls[holder].arg) # <<>>) =>
               /\ lastCommand' = calls[holder].arg.str
               /\ script' = script \o calls[holder].arg.str
               /\ Framing(stdin'[Len(stdin')].text) ]_vars

\* C23 witness: two codes were framed and written, the history holds both
\* and the last command is the second
C23_Witness ==
    /\ Len(stdin) >= 3
    /\ Framing(stdin[Len(stdin)].text)
    /\ script = CodePrint \o CodeMixed
    /\ lastCommand = CodeMixed

\* C24: every text written to stdin is the code of its call, a blank line,
\* then the statement printing the stdout sentinel and after it, last, the
\* statement printing the stderr sentinel; and the two tokens differ
C24_FrameOrder ==
    /\ StdoutEnd # StderrEnd
    /\ \A i \in 1..Len(stdin) :
        LET text == stdin[i].text
            code == CommandText(calls[stdin[i].k].arg)
            rest == Tag(SubSeq(text, Len(code) + 1, Len(text)), 0)
            out == IndexOf(rest, PrintStdoutEnd)
            err == IndexOf(rest, PrintStderrEnd)
        IN  /\ SubSeq(text, 1, Len(code)) = code
            /\ MatchAt(rest, <<"\n", "\n">>, 1)
            /\ 2 < out
            /\ MatchAt(rest, <<"\n">>, out + Len(PrintStdoutEnd))
            /\ out + Len(PrintStdoutEnd) < err
            /\ MatchAt(rest, <<"\n">>, err + Len(PrintStderrEnd))
            /\ err + Len(PrintStderrEnd) = Len(rest)

\* C24 witness: the frames of an empty submission and of a code of several
\* statements were written
C24_Witness ==
    /\ \E i \in 1..Len(stdin) : CommandText(calls[stdin[i].k].arg) = <<>>
    /\ \E i \in 1..Len(stdin) : CommandText(calls[stdin[i].k].arg) = CodeMixed

\* call k is a restart() followed at once by a start(), the last calls made
\* on a session that was not stopped since
RestartThenStart(k) ==
    /\ k + 1 = Len(calls)
    /\ calls[k].kind = "restart" /\ calls[k + 1].kind = "start"
    /\ pythonProcess # 0

\* C25: restart() followed at once by start() is a start() on a new session:
\* the promise of the restart is settled, or the event loop has a step to
\* take towards that; it is resolved with the banner of the new process; and
\* the history is empty
C25_RestartThenStart ==
    \A k \in Ids : RestartThenStart(k) =>
        /\ script = <<>>
        /\ Settled(calls[k]) \/ ENABLED ProgramStep
        /\ Settled(calls[k]) =>
            /\ Deferred(k).st = "resolved"
            /\ MatchAt(Deferred(k).val, SubSeq(Banner, 1, 2), 1)

\* the calls the caller made after call k
Later(k) == {j \in Ids : j > k}

C27_SettleReleasesGate ==
    /\ [][ \A k \in Ids :
            (holder = k /\ ~Settled(calls[k]) /\ Settled(calls'[k])) =>
                IF queue # <<>>
                THEN /\ holder' = Head(queue)
                     /\ queue' = Tail(queue)
                     /\ calls'[holder'].st = "ticketed"
                ELSE holder' = 0 ]_vars
    /\ [](/\ queue # <<>> => holder # 0
          /\ holder # 0 => ~Settled(calls[holder])
          /\ \A k \in Ids : calls[k].st = "queued" <=> k \in Range(queue)
          /\ MicrotaskPending => ENABLED RunCallback)

\* C27 witness: the first call, made before start(), settled by its
\* sentinels, so the start() was queued behind it; the start() now has its
\* turn and a third call waits
C27_Witness ==
    /\ Len(calls) = 3
    /\ BySentinels(1) /\ ~calls[1].live
    /\ calls[2].kind = "start" /\ calls[2].st = "ticketed" /\ holder = 2
    /\ queue = <<3>>

\* the data listeners of call k are registered on the streams of a process,
\* be it running or killed
Attached(k) == calls[k].lpid # 0

\* the framed command of call k was written to stdin
Written(k) == \E i \in 1..Len(stdin) : stdin[i].k = k

\* call k failed a precondition: no process, or a stream handle missing
PreconditionFailed(k) == calls[k].err \in {"NotStarted"} \cup StreamErrors

\* C28: a call that failed a precondition has attached no listener and has
\* written nothing to stdin
C28_FailsBeforeStreams ==
    \A k \in Ids : PreconditionFailed(k) => ~Attached(k) /\ ~Written(k)

\* the calls whose listeners are registered on some stream
AttachedSets == {k \in Ids : Attached(k)}

\* C29: at most one set of listeners is attached, and none when no
\* submission is active; a settled call, failed or not, has its listeners
\* removed, and so has a call abandoned with the process it ran on
C29_ListenersRemoved ==
    /\ Cardinality(AttachedSets) <= 1
    /\ Active = {} => AttachedSets = {}
    /\ \A k \in Ids : Settled(calls[k]) => ~Attached(k)
    /\ \A k \in AttachedSets : calls[k].lpid = pythonProcess

\* C30: a step that attaches the listeners of a call or writes its command
\* is the callback of the holder of the gate; the call whose command is
\* written has its listeners attached by then; and a call that wrote its
\* command keeps the gate until it has seen both sentinels
C30_HolderOnly ==
    [][ \A k \in Ids :
          /\ (~Attached(k) /\ Attached(k)') => holder = k /\ RunCallback
          /\ (~Written(k) /\ Written(k)') =>
                /\ holder = k /\ RunCallback
                /\ Attached(k)'
          /\ (Written(k) /\ holder = k /\ holder' # k) =>
                calls'[k].stdoutDone /\ calls'[k].stderrDone ]_vars

\* C31: while a submission holds the gate, the history and the last command
\* are changed by no step other than the callback of that holder
C31_HolderOnlyMutates ==
    [][ (holder # 0 /\ (script' # script \/ lastCommand' # lastCommand)) =>
            RunCallback ]_vars

\* the text holds a prompt of the interpreter
Prompted(text) == Includes(text, PromptPs1) \/ Includes(text, PromptPs2)

\* C32: no call that settles by its sentinels carries a prompt echo in its
\* payload, and an execute() on a started session that was never stopped,
\* whose code makes the interpreter print no error text, is resolved
C32_PromptsFiltered ==
    \A k \in Ids : (calls[k].kind = "execute" /\ BySentinels(k)) =>
        /\ ~Prompted(calls[k].val)
        /\ (calls[k].live /\ spawned = 1
                /\ InterpStderr(CommandText(calls[k].arg)) = <<>>) =>
            calls[k].st = "resolved"

\* C33: the filter of the error stream removes no character of the error
\* text: an execute() on a started session that was never stopped, whose
\* code makes the interpreter print an error text, is rejected with a
\* payload that holds that text whole
C33_FilterConservative ==
    \A k \in Ids :
        (calls[k].kind = "execute" /\ calls[k].live /\ spawned = 1 /\ BySentinels(k)
            /\ InterpStderr(CommandText(calls[k].arg)) # <<>>) =>
            /\ calls[k].st = "rejected"
            /\ Includes(calls[k].val, ExpectedVal(CommandText(calls[k].arg)))

\* C34: a step that spawns no process leaves what the history held in
\* place, and the callback that frames a command appends the code of its
\* call to it
C34_TranscriptGrows ==
    [][ /\ spawned' = spawned =>
            /\ Len(script') >= Len(script)
            /\ SubSeq(script', 1, Len(script)) = script
        /\ (CallbackOf("execute") /\ pythonProcess # 0) =>
            script' = script \o CommandText(calls[holder].arg) ]_vars

\* C34 witness: two codes were recorded one after the other on the one
\* process the session ever had, which is still running
C34_Witness ==
    /\ spawned = 1 /\ pythonProcess # 0
    /\ script = CodeMixed \o CodePrint
    /\ lastCommand = CodePrint

\* the lines of a text
RECURSIVE SplitLines(_)
SplitLines(s) ==
    LET ends == {i \in 1..Len(s) : s[i] = "\n"}
    IN  IF ends = {} THEN <<s>>
        ELSE LET i == CHOOSE e \in ends : \A f \in ends : e <= f
             IN  <<SubSeq(s, 1, i - 1)>> \o SplitLines(SubSeq(s, i + 1, Len(s)))

\* the number of blanks a line starts with
RECURSIVE Indent(_)
Indent(line) ==
    IF line # <<>> /\ Head(line) = " " THEN 1 + Indent(Tail(line)) ELSE 0

RECURSIVE JoinLines(_)
JoinLines(ls) ==
    IF Len(ls) = 1 THEN ls[1] ELSE ls[1] \o <<"\n">> \o JoinLines(Tail(ls))

\* dedent(command): the indentation common to the lines that are not blank
\* is taken off every line
Dedent(s) ==
    LET ls == SplitLines(s)
        solid == {i \in 1..Len(ls) : Indent(ls[i]) < Len(ls[i])}
        m == IF solid = {} THEN 0
             ELSE Indent(ls[CHOOSE i \in solid :
                                \A j \in solid : Indent(ls[i]) <= Indent(ls[j])])
    IN  JoinLines([i \in 1..Len(ls) |->
                    SubSeq(ls[i], (IF Indent(ls[i]) < m THEN Indent(ls[i]) ELSE m) + 1,
                           Len(ls[i]))])

\* C35: the code written to stdin and the code recorded as the last command
\* are the caller's code less the indentation common to its lines
C35_Dedented ==
    /\ \A i \in 1..Len(stdin) :
        LET code == Dedent(CommandText(calls[stdin[i].k].arg))
        IN  SubSeq(stdin[i].text, 1, Len(code) + 2) = code \o <<"\n", "\n">>
    /\ lastCommand \in {<<>>} \cup {Dedent(CommandText(arg)) : arg \in inputs}

\* the call of record r after the whole answer to its code arrived in one
\* 'data' event of each stream
InOneRead(r, k) ==
    LET code == CommandText(r.arg)
        out == EmitStdout(code, k)
        err == EmitStderr(code, k)
    IN  OnStderrData(OnStdoutData(NewCall(r.kind, r.arg, r.live, "active"),
                                  Read(out, Len(out))),
                     Read(err, Len(err)))

\* C36: an execute() on a started session that was never stopped settles,
\* however the answer of the interpreter was cut into 'data' events, as it
\* does when each stream delivers the answer in one event
C36_ChunkingIrrelevant ==
    \A k \in Ids :
        (calls[k].kind = "execute" /\ calls[k].live /\ spawned = 1 /\ BySentinels(k)) =>
            /\ calls[k].st = InOneRead(calls[k], k).st
            /\ Txt(calls[k].val) = Txt(InOneRead(calls[k], k).val)

DataEvent == StreamEvent \/ \E m, n \in 0..MaxChunk : Lost(m, n)

\* the handlers of call k are attached to the streams of the running process
OnLiveStreams(k) == Attached(k) /\ calls[k].lpid = pythonProcess

\* C38: a settled call keeps its outcome in every step, and no 'data' event
\* is emitted to handlers of a call that has settled
C38_SettlesOnce ==
    [][ \A k \in Ids : Settled(calls[k]) =>
          /\ calls'[k].st = calls[k].st
          /\ calls'[k].val = calls[k].val
          /\ calls'[k].err = calls[k].err
          /\ DataEvent => ~OnLiveStreams(k) ]_vars

\* C39: an execute() that finds no process changes nothing of the session:
\* making the call changes neither the history, the last command, the
\* handle nor the path, and the callback that rejects it with the
\* not-started error leaves them and stdin alone and gives the gate up, to
\* the next call waiting if there is one
C39_NotStartedNoEffect ==
    [][ /\ (\E arg \in inputs : Execute(arg)) =>
            UNCHANGED <<script, lastCommand, pythonProcess, pythonPath, stdin>>
        /\ (CallbackOf("execute") /\ pythonProcess = 0) =>
            /\ calls'[holder].st = "rejected" /\ calls'[holder].err = "NotStarted"
            /\ UNCHANGED <<script, lastCommand, pythonProcess, pythonPath, stdin>>
            /\ holder' = IF queue = <<>> THEN 0 ELSE Head(queue) ]_vars

\* C39 witness: an execute() was rejected with the not-started error on a
\* stopped session that still has its history and last command, and the
\* gate is free
C39_Witness ==
    /\ pythonProcess = 0 /\ holder = 0
    /\ script # <<>> /\ lastCommand # <<>>
    /\ \E k \in Ids : calls[k].kind = "execute" /\ calls[k].err = "NotStarted"

\* text ends with tail
EndsWith(text, tail) ==
    /\ Len(tail) <= Len(text)
    /\ SubSeq(text, Len(text) - Len(tail) + 1, Len(text)) = tail

\* C40: the last command is empty when the history is empty, and the
\* history ends with the last command otherwise
C40_LastCommandAgrees ==
    /\ script = <<>> => lastCommand = <<>>
    /\ EndsWith(script, lastCommand)

====
